---------------------------- MODULE Spec2Model ----------------------------
(***************************************************************************)
(* A model of the in-memory user CRUD service of src/api/api.go: the Store *)
(* (models.DB, a map from uuid.UUID to *models.User), the request          *)
(* validator and the five chi handlers.                                    *)
(*                                                                         *)
(* Spec     : requests are served one after the other; every action is one *)
(*            whole handler call, and a log keeps each request with its    *)
(*            response and the Store before and after it.                  *)
(* SpecConc : requests are served by concurrent goroutines; a handler is   *)
(*            split at its accesses to the unsynchronised Store.           *)
(***************************************************************************)
EXTENDS Integers, Sequences, FiniteSets, TLC

VARIABLES
    db,       \* the Store: a function from a set of UUIDs to *User values
    issued,   \* the UUIDs uuid.New() has returned so far in this process
    log,      \* Spec: the served requests, oldest first
    pc,       \* SpecConc: each request goroutine's position in its handler
    frame,    \* SpecConc: each request goroutine's request, locals and response
    clock,    \* SpecConc: the number of Store writes made so far
    started,  \* SpecConc: the number of requests dispatched so far
    crashed   \* SpecConc: the runtime has thrown on a concurrent map access

vars == <<db, issued, log, pc, frame, clock, started, crashed>>

(***************************************************************************)
(* Bounds.                                                                 *)
(***************************************************************************)
MaxMint == 2          \* identifiers uuid.New() can hand out
MaxRequests == 3      \* requests served in Spec
ConcRequests == 3     \* requests served in SpecConc, each by its own goroutine

(***************************************************************************)
(* Identifiers.  uuid.Nil is the zero UUID, which uuid.Parse returns with  *)
(* its error; uuid.New() returns random version-4 UUIDs, here 1..MaxMint;  *)
(* ForeignUUID is a well-formed UUID a client made up, which the process   *)
(* never generates.                                                        *)
(***************************************************************************)
NilUUID == 0
ForeignUUID == -1
MintPool == 1..MaxMint

\* uuid.UUID.String / MarshalText: the canonical textual form.
UUIDString(id) == [form |-> "canonical", id |-> id]

\* A path segment that is no textual form of any UUID.
GarbagePath == [form |-> "garbage", id |-> NilUUID]

\* The {id} path segments a client can send once `known` ids were returned
\* to it: the text of an id it was given or of an id it made up, or garbage.
PathStrings(known) ==
    {UUIDString(id) : id \in known \cup {ForeignUUID}} \cup {GarbagePath}

\* uuid.Parse: the UUID of a textual form, or uuid.Nil and an error.
UUIDParse(s) ==
    IF s.form = "canonical"
    THEN [id |-> s.id, err |-> FALSE]
    ELSE [id |-> NilUUID, err |-> TRUE]

\* uuid.New(): the ids it can return when `used` were returned before.
\* (Faulty variant: a generator that can repeat an identifier.)
NewUUIDReuse(used) == MintPool
NewUUID(used) == MintPool \ used

(***************************************************************************)
(* JSON values and request bodies.                                         *)
(***************************************************************************)
JString(s) == [t |-> "string", v |-> s]
JNull == [t |-> "null", v |-> ""]

\* models.User: three string fields with their JSON names.
UserFields == {"first_name", "last_name", "bio"}
\* A *models.User: nil, or a pointer to a User of its own.
NilUser == [nil |-> TRUE, first_name |-> "", last_name |-> "", bio |-> ""]
MkUser(f, l, b) == [nil |-> FALSE, first_name |-> f, last_name |-> l, bio |-> b]
\* var userModel models.User: the zero value.
ZeroUser == MkUser("", "", "")

\* A request body: bytes that are a JSON object (its keys and values), or not.
Malformed == [json |-> FALSE, obj |-> <<>>]
JBody(o) == [json |-> TRUE, obj |-> o]
NoBody == Malformed

FullObj(f, l, b) ==
    [first_name |-> JString(f), last_name |-> JString(l), bio |-> JString(b)]

\* Bodies with exactly the three fields, all strings.
CompleteBodies == {JBody(FullObj("A", "B", "C")), JBody(FullObj("", "", ""))}
\* A body that leaves one of the three fields, bio, out.
OmittingBodies ==
    {JBody([first_name |-> JString("A"), last_name |-> JString("B")])}
\* A body with a field that is none of the three.
ExtraBodies ==
    {JBody([first_name |-> JString("A"), last_name |-> JString("B"),
            bio |-> JString("C"), age |-> JString("9")])}
\* A body whose bio is the JSON null.
NullBodies ==
    {JBody([first_name |-> JString("A"), last_name |-> JString("B"),
            bio |-> JNull])}
Bodies ==
    CompleteBodies \cup OmittingBodies \cup ExtraBodies \cup NullBodies
        \cup {Malformed}

Keys(body) == DOMAIN body.obj

\* decoder.DisallowUnknownFields(); decoder.Decode(&user): an error for
\* bytes that are no JSON or an object with an unknown key; a string sets
\* its field, a null or an absent key leaves the field "".
DecodeField(o, k) ==
    IF k \in DOMAIN o /\ o[k].t = "string" THEN o[k].v ELSE ""
Decode(body) ==
    IF ~body.json \/ ~(Keys(body) \subseteq UserFields)
    THEN [err |-> TRUE, user |-> ZeroUser]
    ELSE [err |-> FALSE,
          user |-> MkUser(DecodeField(body.obj, "first_name"),
                          DecodeField(body.obj, "last_name"),
                          DecodeField(body.obj, "bio"))]

\* json.Marshal of a models.User followed by json.Unmarshal into a
\* map[string]interface{}: every field of the struct is a key, with its
\* string as the value.
MarshalUser(u) == [k \in UserFields |-> JString(u[k])]

\* userMap[key] == nil: the key is absent from the map or maps to null.
MapIsNil(m, k) == k \notin DOMAIN m \/ m[k].t = "null"

\* validateRequestBodyFields: the decoded user, or nil and an error.
validateRequestBodyFields(body, schemaObj) ==
    LET d == Decode(body)
        schemaObjMap == MarshalUser(schemaObj)
        userMap == MarshalUser(d.user)
    IN  IF d.err THEN [user |-> NilUser, err |-> TRUE]
        ELSE IF \E key \in DOMAIN schemaObjMap : MapIsNil(userMap, key)
             THEN [user |-> NilUser, err |-> TRUE]
             ELSE [user |-> d.user, err |-> FALSE]

(***************************************************************************)
(* The response writer of net/http: the first WriteHeader sets the status, *)
(* later ones are superfluous; a Write before any WriteHeader sends 200.   *)
(***************************************************************************)
StatusOK == 200
StatusCreated == 201
StatusNoContent == 204
StatusBadRequest == 400
StatusNotFound == 404

NoStatus == 0
NewWriter == [status |-> NoStatus, body |-> <<>>]

WriteHeader(w, code) ==
    IF w.status = NoStatus THEN [w EXCEPT !.status = code] ELSE w
Write(w, chunk) ==
    LET h == WriteHeader(w, StatusOK)
    IN  [h EXCEPT !.body = Append(@, chunk)]

\* What a handler writes: an error text, or the JSON of a value.
Text(msg) == [kind |-> "text", text |-> msg, json |-> <<>>]
JsonObject(o) == [kind |-> "object", text |-> "", json |-> <<o>>]
JsonArray(s) == [kind |-> "array", text |-> "", json |-> s]
JsonNullDoc == [kind |-> "null", text |-> "", json |-> <<>>]

\* http.Error(w, msg, code).
HttpError(w, msg, code) == Write(WriteHeader(w, code), Text(msg))

\* UserResponse{ID: id, User: user} and its json.Marshal: the id, then the
\* fields of the embedded *User, which a nil pointer leaves out.
MarshalUserResponse(id, user) ==
    IF user.nil
    THEN [id |-> JString(UUIDString(id))]
    ELSE [id |-> JString(UUIDString(id)), first_name |-> JString(user.first_name),
          last_name |-> JString(user.last_name), bio |-> JString(user.bio)]


(***************************************************************************)
(* The Store: a Go map.                                                    *)
(***************************************************************************)
EmptyDB == [id \in {} |-> NilUser]
\* db[k] = v
MapSet(m, k, v) == [x \in DOMAIN m \cup {k} |-> IF x = k THEN v ELSE m[x]]
\* delete(db, k)
MapDelete(m, k) == [x \in DOMAIN m \ {k} |-> m[x]]
\* v, ok := db[k]: the zero value (a nil pointer) for a missing key.
MapGet(m, k) == IF k \in DOMAIN m THEN m[k] ELSE NilUser
\* The orders in which `for key, value := range db` can visit the keys.
RangeOrders(m) ==
    {s \in [1..Cardinality(DOMAIN m) -> DOMAIN m] :
        \A i, j \in DOMAIN s : i # j => s[i] # s[j]}

(***************************************************************************)
(* A handler call: the request, the handler's locals and its response.     *)
(* In SpecConc storeAt is the number of its Store write (the first write   *)
(* of the run is 1) and lookupAt the number of writes made before its read.*)
(***************************************************************************)
NoPath == [form |-> "none", id |-> NilUUID]
NewFrame(op, path, body) ==
    [op |-> op, path |-> path, body |-> body,
     parsedID |-> NilUUID, parseErr |-> FALSE, user |-> NilUser,
     bodyErr |-> FALSE, ok |-> FALSE, userId |-> NilUUID, result |-> <<>>,
     w |-> NewWriter, lookupAt |-> 0, storeAt |-> 0]

(***************************************************************************)
(* handleFindAll.                                                          *)
(***************************************************************************)
\* result = append(result, UserResponse{ID: key, User: value}) for each key.
\* (Faulty variant: entries with a nil User are skipped.)
FindAllResultDropNil(m, order) ==
    LET kept == SelectSeq(order, LAMBDA k : ~m[k].nil)
    IN  [i \in 1..Len(kept) |-> [id |-> kept[i], user |-> m[kept[i]]]]
FindAllResult(m, order) ==
    [i \in 1..Len(order) |-> [id |-> order[i], user |-> m[order[i]]]]
FindAllRange(f, m, order) == [f EXCEPT !.result = FindAllResult(m, order)]
\* json.Marshal(result): a nil slice is "null"; then 200 and the JSON.
FindAllRespond(f) ==
    LET doc == IF Len(f.result) = 0 THEN JsonNullDoc
               ELSE JsonArray([i \in 1..Len(f.result) |->
                        MarshalUserResponse(f.result[i].id, f.result[i].user)])
    IN  [f EXCEPT !.w = Write(WriteHeader(f.w, StatusOK), doc)]

(***************************************************************************)
(* handleFindById.                                                         *)
(***************************************************************************)
FindByIdStart(f) ==
    LET p == UUIDParse(f.path)
    IN  [f EXCEPT !.parsedID = p.id, !.parseErr = p.err,
                  !.w = IF p.err THEN HttpError(f.w, "Invalid ID", StatusBadRequest)
                        ELSE f.w]
\* user, ok := db[parsedID]; the error is written and the handler goes on.
\* (Faulty variant: the missing key is not reported.)
FindByIdLookupNo404(f, m) ==
    [f EXCEPT !.user = MapGet(m, f.parsedID), !.ok = f.parsedID \in DOMAIN m]
FindByIdLookup(f, m) ==
    LET ok == f.parsedID \in DOMAIN m
    IN  [f EXCEPT !.user = MapGet(m, f.parsedID), !.ok = ok,
                  !.w = IF ~ok THEN HttpError(f.w, "User not found", StatusNotFound)
                        ELSE f.w]
\* The Store after the read db[parsedID]: a Go map read inserts nothing.
\* (Faulty variant: a read that inserts the zero value for a missing key.)
FindByIdStoreInserting(f, m) ==
    IF f.parsedID \in DOMAIN m THEN m ELSE MapSet(m, f.parsedID, NilUser)
FindByIdStore(f, m) == m
FindByIdRespond(f) ==
    [f EXCEPT !.w = Write(WriteHeader(f.w, StatusOK),
                          JsonObject(MarshalUserResponse(f.parsedID, f.user)))]

(***************************************************************************)
(* handleInsert.                                                           *)
(***************************************************************************)
\* validateRequestBodyFields, the 400 on its error, then userId := uuid.New().
InsertStart(f, userId) ==
    LET v == validateRequestBodyFields(f.body, ZeroUser)
    IN  [f EXCEPT !.user = v.user, !.bodyErr = v.err, !.userId = userId,
                  !.w = IF v.err
                        THEN HttpError(f.w, "Invalid request body", StatusBadRequest)
                        ELSE f.w]
\* db[userId] = user
InsertStore(f, m) == MapSet(m, f.userId, f.user)
InsertRespond(f) ==
    [f EXCEPT !.w = Write(WriteHeader(f.w, StatusCreated),
                          JsonObject(MarshalUserResponse(f.userId, f.user)))]

(***************************************************************************)
(* handleUpdate.                                                           *)
(***************************************************************************)
UpdateStart(f) ==
    LET p == UUIDParse(f.path)
        w1 == IF p.err THEN HttpError(f.w, "Invalid ID", StatusBadRequest) ELSE f.w
        v == validateRequestBodyFields(f.body, ZeroUser)
        w2 == IF v.err THEN HttpError(w1, "Invalid request body", StatusBadRequest)
              ELSE w1
    IN  [f EXCEPT !.parsedID = p.id, !.parseErr = p.err, !.user = v.user,
                  !.bodyErr = v.err, !.w = w2]
\* _, ok := db[parsedID]
UpdateLookup(f, m) ==
    LET ok == f.parsedID \in DOMAIN m
    IN  [f EXCEPT !.ok = ok,
                  !.w = IF ~ok THEN HttpError(f.w, "User not found", StatusNotFound)
                        ELSE f.w]
\* db[parsedID] = user, whatever the lookup found.
\* (Faulty variant: the write happens only if the key is still there.)
UpdateStoreIfPresent(f, m) ==
    IF f.parsedID \in DOMAIN m THEN MapSet(m, f.parsedID, f.user) ELSE m
UpdateStore(f, m) == MapSet(m, f.parsedID, f.user)
UpdateRespond(f) ==
    [f EXCEPT !.w = Write(WriteHeader(f.w, StatusOK),
                          JsonObject(MarshalUserResponse(f.parsedID, f.user)))]

(***************************************************************************)
(* handleDelete.                                                           *)
(***************************************************************************)
DeleteStart(f) ==
    LET p == UUIDParse(f.path)
    IN  [f EXCEPT !.parsedID = p.id, !.parseErr = p.err,
                  !.w = IF p.err THEN HttpError(f.w, "Invalid ID", StatusBadRequest)
                        ELSE f.w]
DeleteLookup(f, m) ==
    LET ok == f.parsedID \in DOMAIN m
    IN  [f EXCEPT !.ok = ok,
                  !.w = IF ~ok THEN HttpError(f.w, "User not found", StatusNotFound)
                        ELSE f.w]
\* delete(db, parsedID)
\* (Faulty variant: nothing is removed.)
DeleteStoreKept(f, m) == m
DeleteStore(f, m) == MapDelete(m, f.parsedID)
DeleteRespond(f) == [f EXCEPT !.w = WriteHeader(f.w, StatusNoContent)]

(***************************************************************************)
(* Spec: one request at a time, each action a whole handler call.          *)
(***************************************************************************)
Procs == 1..ConcRequests
IdleFrame == NewFrame("none", NoPath, NoBody)

Init ==
    /\ db = EmptyDB
    /\ issued = {}
    /\ log = <<>>
    /\ pc = [p \in Procs |-> "idle"]
    /\ frame = [p \in Procs |-> IdleFrame]
    /\ clock = 0
    /\ started = 0
    /\ crashed = FALSE

concVars == <<pc, frame, clock, started, crashed>>

Entry(f, pre, post) == [f |-> f, pre |-> pre, post |-> post, issuedPre |-> issued]

\* GET /users
FindAll ==
    /\ Len(log) < MaxRequests
    /\ \E order \in RangeOrders(db) :
         LET f == FindAllRespond(FindAllRange(NewFrame("list", NoPath, NoBody), db, order))
         IN  log' = Append(log, Entry(f, db, db))
    /\ UNCHANGED <<db, issued, concVars>>

\* GET /users/{id}
FindById ==
    /\ Len(log) < MaxRequests
    /\ \E path \in PathStrings(issued) :
         LET f1 == FindByIdLookup(FindByIdStart(NewFrame("get", path, NoBody)), db)
             post == FindByIdStore(f1, db)
         IN  /\ db' = post
             /\ log' = Append(log, Entry(FindByIdRespond(f1), db, post))
    /\ UNCHANGED <<issued, concVars>>

\* POST /users
Insert ==
    /\ Len(log) < MaxRequests
    /\ \E body \in Bodies, userId \in NewUUID(issued) :
         LET f1 == InsertStart(NewFrame("create", NoPath, body), userId)
             post == InsertStore(f1, db)
         IN  /\ db' = post
             /\ issued' = issued \cup {userId}
             /\ log' = Append(log, Entry(InsertRespond(f1), db, post))
    /\ UNCHANGED concVars

\* PUT /users/{id}
Update ==
    /\ Len(log) < MaxRequests
    /\ \E path \in PathStrings(issued), body \in Bodies :
         LET f1 == UpdateLookup(UpdateStart(NewFrame("update", path, body)), db)
             post == UpdateStore(f1, db)
         IN  /\ db' = post
             /\ log' = Append(log, Entry(UpdateRespond(f1), db, post))
    /\ UNCHANGED <<issued, concVars>>

\* DELETE /users/{id}
Delete ==
    /\ Len(log) < MaxRequests
    /\ \E path \in PathStrings(issued) :
         LET f1 == DeleteLookup(DeleteStart(NewFrame("delete", path, NoBody)), db)
             post == DeleteStore(f1, db)
         IN  /\ db' = post
             /\ log' = Append(log, Entry(DeleteRespond(f1), db, post))
    /\ UNCHANGED <<issued, concVars>>

Next == FindAll \/ FindById \/ Insert \/ Update \/ Delete

Spec == Init /\ [][Next]_vars


(***************************************************************************)
(* SpecConc: net/http serves every request on a goroutine of its own.  The *)
(* handlers take no lock, so between two accesses of one handler to the    *)
(* Store any other handler may access it.  Requests arrive in the order    *)
(* 1, 2, ...; a handler's steps are its Store accesses, the work between   *)
(* them being local to the goroutine.  Two handlers that are both about to *)
(* access the map, one of them to write, race: the runtime may throw       *)
(* "concurrent map writes" (or "... read and map write"), which ends the   *)
(* process, or let the accesses happen one after the other.                *)
(***************************************************************************)
ConcBodies == {JBody(FullObj("A", "B", "C"))} \cup ExtraBodies

\* The {id} path segments of SpecConc's requests: the text of an id the
\* client was given, or garbage.
ConcPaths(known) == {UUIDString(id) : id \in known} \cup {GarbagePath}

\* The ids a client has been given: those of the creates that have responded.
KnownIds ==
    {frame[p].userId : p \in {q \in Procs : frame[q].op = "create" /\ pc[q] = "done"}}

\* The key a handler's Store write is about.
StoreKey(f) == IF f.op = "create" THEN f.userId ELSE f.parsedID

Dispatched(p) ==
    /\ ~crashed
    /\ p = started + 1
    /\ pc[p] = "idle"
    /\ started' = p

DispatchFindAll(p) ==
    /\ Dispatched(p)
    /\ frame' = [frame EXCEPT ![p] = NewFrame("list", NoPath, NoBody)]
    /\ pc' = [pc EXCEPT ![p] = "range"]
    /\ UNCHANGED <<db, issued, log, clock, crashed>>

DispatchFindById(p) ==
    /\ Dispatched(p)
    /\ \E path \in ConcPaths(KnownIds) :
         frame' = [frame EXCEPT ![p] = FindByIdStart(NewFrame("get", path, NoBody))]
    /\ pc' = [pc EXCEPT ![p] = "lookup"]
    /\ UNCHANGED <<db, issued, log, clock, crashed>>

DispatchInsert(p) ==
    /\ Dispatched(p)
    /\ \E body \in ConcBodies, userId \in NewUUID(issued) :
         /\ frame' = [frame EXCEPT ![p] =
                         InsertStart(NewFrame("create", NoPath, body), userId)]
         /\ issued' = issued \cup {userId}
    /\ pc' = [pc EXCEPT ![p] = "store"]
    /\ UNCHANGED <<db, log, clock, crashed>>

DispatchUpdate(p) ==
    /\ Dispatched(p)
    /\ \E path \in ConcPaths(KnownIds), body \in ConcBodies :
         frame' = [frame EXCEPT ![p] = UpdateStart(NewFrame("update", path, body))]
    /\ pc' = [pc EXCEPT ![p] = "lookup"]
    /\ UNCHANGED <<db, issued, log, clock, crashed>>

DispatchDelete(p) ==
    /\ Dispatched(p)
    /\ \E path \in ConcPaths(KnownIds) :
         frame' = [frame EXCEPT ![p] = DeleteStart(NewFrame("delete", path, NoBody))]
    /\ pc' = [pc EXCEPT ![p] = "lookup"]
    /\ UNCHANGED <<db, issued, log, clock, crashed>>

\* handleFindAll's range over the map, and its response.
RangeStep(p) ==
    /\ ~crashed
    /\ pc[p] = "range"
    /\ \E order \in RangeOrders(db) :
         frame' = [frame EXCEPT ![p] =
                      FindAllRespond(FindAllRange([frame[p] EXCEPT !.lookupAt = clock],
                                                  db, order))]
    /\ pc' = [pc EXCEPT ![p] = "done"]
    /\ UNCHANGED <<db, issued, log, clock, started, crashed>>

\* handleFindById's read of the map, and its response.
FindByIdLookupStep(p) ==
    /\ ~crashed
    /\ pc[p] = "lookup"
    /\ frame[p].op = "get"
    /\ LET f1 == FindByIdLookup([frame[p] EXCEPT !.lookupAt = clock], db)
       IN  /\ db' = FindByIdStore(f1, db)
           /\ frame' = [frame EXCEPT ![p] = FindByIdRespond(f1)]
    /\ pc' = [pc EXCEPT ![p] = "done"]
    /\ UNCHANGED <<issued, log, clock, started, crashed>>

\* handleUpdate's existence check.
UpdateLookupStep(p) ==
    /\ ~crashed
    /\ pc[p] = "lookup"
    /\ frame[p].op = "update"
    /\ frame' = [frame EXCEPT ![p] =
                    UpdateLookup([frame[p] EXCEPT !.lookupAt = clock], db)]
    /\ pc' = [pc EXCEPT ![p] = "store"]
    /\ UNCHANGED <<db, issued, log, clock, started, crashed>>

\* handleDelete's existence check.
DeleteLookupStep(p) ==
    /\ ~crashed
    /\ pc[p] = "lookup"
    /\ frame[p].op = "delete"
    /\ frame' = [frame EXCEPT ![p] =
                    DeleteLookup([frame[p] EXCEPT !.lookupAt = clock], db)]
    /\ pc' = [pc EXCEPT ![p] = "store"]
    /\ UNCHANGED <<db, issued, log, clock, started, crashed>>

\* handleInsert's write to the map, and its response.
InsertStoreStep(p) ==
    /\ ~crashed
    /\ pc[p] = "store"
    /\ frame[p].op = "create"
    /\ clock' = clock + 1
    /\ db' = InsertStore(frame[p], db)
    /\ frame' = [frame EXCEPT ![p] = InsertRespond([frame[p] EXCEPT !.storeAt = clock'])]
    /\ pc' = [pc EXCEPT ![p] = "done"]
    /\ UNCHANGED <<issued, log, started, crashed>>

\* handleUpdate's write to the map, and its response.
UpdateStoreStep(p) ==
    /\ ~crashed
    /\ pc[p] = "store"
    /\ frame[p].op = "update"
    /\ clock' = clock + 1
    /\ db' = UpdateStore(frame[p], db)
    /\ frame' = [frame EXCEPT ![p] = UpdateRespond([frame[p] EXCEPT !.storeAt = clock'])]
    /\ pc' = [pc EXCEPT ![p] = "done"]
    /\ UNCHANGED <<issued, log, started, crashed>>

\* handleDelete's delete from the map, and its response.
DeleteStoreStep(p) ==
    /\ ~crashed
    /\ pc[p] = "store"
    /\ frame[p].op = "delete"
    /\ clock' = clock + 1
    /\ db' = DeleteStore(frame[p], db)
    /\ frame' = [frame EXCEPT ![p] = DeleteRespond([frame[p] EXCEPT !.storeAt = clock'])]
    /\ pc' = [pc EXCEPT ![p] = "done"]
    /\ UNCHANGED <<issued, log, started, crashed>>

\* Two goroutines are at a map access at once and one of them writes: the
\* runtime's check can throw, a fatal error that no recover() catches: the
\* process exits, and the Store and every handler in flight are gone.
AtAccess(p) == pc[p] \in {"range", "lookup", "store"}
Racing == \E p, q \in Procs : p # q /\ AtAccess(p) /\ pc[q] = "store"
FatalConcurrentMapAccess ==
    /\ ~crashed
    /\ Racing
    /\ crashed' = TRUE
    /\ db' = EmptyDB
    /\ issued' = {}
    /\ pc' = [p \in Procs |-> "idle"]
    /\ frame' = [p \in Procs |-> IdleFrame]
    /\ clock' = 0
    /\ UNCHANGED <<log, started>>

NextConc ==
    \/ \E p \in Procs :
         \/ DispatchFindAll(p)
         \/ DispatchFindById(p)
         \/ DispatchInsert(p)
         \/ DispatchUpdate(p)
         \/ DispatchDelete(p)
         \/ RangeStep(p)
         \/ FindByIdLookupStep(p)
         \/ UpdateLookupStep(p)
         \/ DeleteLookupStep(p)
         \/ InsertStoreStep(p)
         \/ UpdateStoreStep(p)
         \/ DeleteStoreStep(p)
    \/ FatalConcurrentMapAccess

SpecConc == Init /\ [][NextConc]_vars


(***************************************************************************)
(* The claims.  In Spec they are read off the log: log[i].f is the i-th    *)
(* request with the response written to it, log[i].pre and log[i].post the *)
(* Store before and after it, log[i].issuedPre the ids minted before it.   *)
(***************************************************************************)
StatusOf(e) == e.f.w.status
IsOp(e, op) == e.f.op = op
ParsesOk(e) == ~UUIDParse(e.f.path).err
PathId(e) == UUIDParse(e.f.path).id

\* The body has exactly the three fields, each a string.
IsComplete(body) ==
    /\ body.json
    /\ Keys(body) = UserFields
    /\ \A k \in Keys(body) : body.obj[k].t = "string"
\* The User such a body spells out.
BodyUser(body) ==
    MkUser(body.obj["first_name"].v, body.obj["last_name"].v, body.obj["bio"].v)
\* The body leaves out one of the three fields, or has another field.
IsIncompleteOrExtra(body) ==
    /\ body.json
    /\ \/ \E k \in UserFields : k \notin Keys(body)
       \/ \E k \in Keys(body) : k \notin UserFields

\* Request k is a create or an update that writes id.
WritesId(k, id) ==
    \/ IsOp(log[k], "create") /\ log[k].f.userId = id
    \/ IsOp(log[k], "update") /\ PathId(log[k]) = id
NoWriteBetween(i, j, id) == \A k \in (i + 1)..(j - 1) : ~WritesId(k, id)

\* The ids written by the creates and updates among the first n requests and
\* not deleted since.
RECURSIVE LiveIds(_)
LiveIds(n) ==
    IF n = 0 THEN {}
    ELSE LET e == log[n]
             before == LiveIds(n - 1)
         IN  CASE IsOp(e, "create") -> before \cup {e.f.userId}
               [] IsOp(e, "update") -> before \cup {PathId(e)}
               [] IsOp(e, "delete") -> before \ {PathId(e)}
               [] OTHER -> before

\* C1: a create whose body has exactly the three fields, all strings (empty
\* ones included), responds 201 with an identifier that was never issued
\* before, and afterwards the Store is the Store before it with that
\* identifier mapped to the User of the body.
C1_CreateStoresFreshId ==
    \A i \in DOMAIN log :
        LET e == log[i] IN
        (IsOp(e, "create") /\ IsComplete(e.f.body)) =>
            /\ StatusOf(e) = StatusCreated
            /\ e.f.userId \notin e.issuedPre
            /\ e.f.w.body =
                 <<JsonObject(MarshalUserResponse(e.f.userId, BodyUser(e.f.body)))>>
            /\ e.post = MapSet(e.pre, e.f.userId, BodyUser(e.f.body))

C1_Witness ==
    \E i \in DOMAIN log :
        /\ IsOp(log[i], "create")
        /\ IsComplete(log[i].f.body)
        /\ log[i].f.body.obj["bio"].v = ""
        /\ DOMAIN log[i].pre # {}
        /\ StatusOf(log[i]) = StatusCreated
        /\ log[i].f.userId \in DOMAIN db

\* C2: a create or an update whose body leaves out one of first_name,
\* last_name and bio, or has a field other than those three, responds 400.
C2_IncompleteOrExtraRejected ==
    \A i \in DOMAIN log :
        LET e == log[i] IN
        ((IsOp(e, "create") \/ IsOp(e, "update")) /\ IsIncompleteOrExtra(e.f.body))
            => StatusOf(e) = StatusBadRequest

\* C3: a delete of an id that is in the Store responds 204 and removes the
\* id and nothing else; a later delete of the same id, with no create or
\* update of that id in between, responds 404 and leaves the Store as it
\* found it, the id still absent.
C3_DeleteThenNotFound ==
    /\ \A i \in DOMAIN log :
         LET e == log[i] IN
         (IsOp(e, "delete") /\ ParsesOk(e) /\ PathId(e) \in DOMAIN e.pre) =>
             /\ StatusOf(e) = StatusNoContent
             /\ e.post = MapDelete(e.pre, PathId(e))
             /\ e.f.w.body = <<>>
    /\ \A i, j \in DOMAIN log :
         (/\ i < j
          /\ IsOp(log[i], "delete") /\ ParsesOk(log[i])
          /\ PathId(log[i]) \in DOMAIN log[i].pre
          /\ IsOp(log[j], "delete") /\ ParsesOk(log[j])
          /\ PathId(log[j]) = PathId(log[i])
          /\ NoWriteBetween(i, j, PathId(log[i]))) =>
             /\ StatusOf(log[j]) = StatusNotFound
             /\ log[j].post = log[j].pre
             /\ PathId(log[j]) \notin DOMAIN log[j].post
             /\ (j = i + 1 => log[j].post = log[i].post)

C3_Witness ==
    \E i, j \in DOMAIN log :
        /\ i < j
        /\ IsOp(log[i], "delete") /\ ParsesOk(log[i])
        /\ PathId(log[i]) \in DOMAIN log[i].pre
        /\ StatusOf(log[i]) = StatusNoContent
        /\ IsOp(log[j], "delete") /\ log[j].f.path = log[i].f.path
        /\ StatusOf(log[j]) = StatusNotFound

\* The ids of the entries of a list response.
ListDoc(e) == e.f.w.body[1]
ListedIds(e) == {ListDoc(e).json[n]["id"] : n \in DOMAIN ListDoc(e).json}

C5_GetStatus ==
    /\ \A i \in DOMAIN log :
         LET e == log[i] IN
         IsOp(e, "get") =>
             /\ ~ParsesOk(e) => StatusOf(e) = StatusBadRequest
             /\ (ParsesOk(e) /\ PathId(e) \notin DOMAIN e.pre) =>
                    StatusOf(e) = StatusNotFound
             /\ (ParsesOk(e) /\ PathId(e) \in DOMAIN e.pre) =>
                    /\ StatusOf(e) = StatusOK
                    /\ e.f.w.body =
                         <<JsonObject(MarshalUserResponse(PathId(e), e.pre[PathId(e)]))>>
    /\ \A i, j \in DOMAIN log :
         (/\ i < j
          /\ IsOp(log[i], "delete") /\ ParsesOk(log[i])
          /\ StatusOf(log[i]) = StatusNoContent
          /\ IsOp(log[j], "get") /\ ParsesOk(log[j])
          /\ PathId(log[j]) = PathId(log[i])
          /\ NoWriteBetween(i, j, PathId(log[i]))) =>
             StatusOf(log[j]) = StatusNotFound

C5_Witness ==
    \E i, j \in DOMAIN log :
        /\ i < j
        /\ IsOp(log[i], "delete") /\ ParsesOk(log[i])
        /\ StatusOf(log[i]) = StatusNoContent
        /\ IsOp(log[j], "get") /\ log[j].f.path = log[i].f.path
        /\ StatusOf(log[j]) = StatusNotFound

\* C6: an update with a complete body on an id that parses and is no key of
\* the Store responds 404 and writes all the same: afterwards the Store is
\* the Store before it with the id mapped to the User of the body.
C6_UpdateAbsentStillWrites ==
    \A i \in DOMAIN log :
        LET e == log[i] IN
        (/\ IsOp(e, "update") /\ ParsesOk(e) /\ IsComplete(e.f.body)
         /\ PathId(e) \notin DOMAIN e.pre) =>
            /\ StatusOf(e) = StatusNotFound
            /\ PathId(e) \in DOMAIN e.post
            /\ e.post = MapSet(e.pre, PathId(e), BodyUser(e.f.body))

C6_Witness ==
    \E i \in DOMAIN log :
        /\ IsOp(log[i], "update") /\ ParsesOk(log[i]) /\ IsComplete(log[i].f.body)
        /\ PathId(log[i]) \notin DOMAIN log[i].pre
        /\ StatusOf(log[i]) = StatusNotFound
        /\ PathId(log[i]) \in DOMAIN db

\* C7: a get leaves the Store as it found it, and two gets of the same path
\* id with only reads (gets and lists) between them have the same status and
\* the same body.
C7_GetIsPure ==
    /\ \A i \in DOMAIN log : IsOp(log[i], "get") => log[i].post = log[i].pre
    /\ \A i, j \in DOMAIN log :
         (/\ i < j
          /\ IsOp(log[i], "get") /\ IsOp(log[j], "get")
          /\ log[i].f.path = log[j].f.path
          /\ \A k \in (i + 1)..(j - 1) : IsOp(log[k], "get") \/ IsOp(log[k], "list")) =>
             /\ StatusOf(log[i]) = StatusOf(log[j])
             /\ log[i].f.w.body = log[j].f.w.body

C7_Witness ==
    \E i, j \in DOMAIN log :
        /\ i < j
        /\ IsOp(log[i], "get") /\ IsOp(log[j], "get")
        /\ log[i].f.path = log[j].f.path
        /\ StatusOf(log[i]) = StatusOK
        /\ StatusOf(log[j]) = StatusOK
        /\ ~log[i].pre[PathId(log[i])].nil

\* C8: every key of the Store is an identifier minted by a create.
C8_KeysWereMinted == DOMAIN db \subseteq issued

\* C10: a create, update or delete that responds 400 leaves the Store
\* unchanged.
C10_BadRequestLeavesStore ==
    \A i \in DOMAIN log :
        LET e == log[i] IN
        ((IsOp(e, "create") \/ IsOp(e, "update") \/ IsOp(e, "delete"))
            /\ StatusOf(e) = StatusBadRequest) => e.post = e.pre

(***************************************************************************)
(* SpecConc: an update u and a delete d of the same id overlap when both   *)
(* found the id in the Store and d's removal fell between u's existence    *)
(* check and u's write.                                                    *)
(***************************************************************************)
Overlap(u, d) ==
    /\ pc[u] = "done" /\ pc[d] = "done"
    /\ frame[u].op = "update" /\ frame[d].op = "delete"
    /\ ~frame[u].parseErr /\ ~frame[d].parseErr
    /\ ~frame[u].bodyErr
    /\ frame[u].parsedID = frame[d].parsedID
    /\ frame[u].ok /\ frame[d].ok
    /\ frame[u].lookupAt < frame[d].storeAt
    /\ frame[d].storeAt < frame[u].storeAt

\* No handler wrote the key of u's write after u did.
LastWriter(u) ==
    \A r \in Procs :
        (frame[r].storeAt > frame[u].storeAt) => StoreKey(frame[r]) # StoreKey(frame[u])

\* C9: nothing keeps another handler's Store write out from between a
\* handler's existence check and its own write: when a delete's removal of
\* an id lands between an update's check of that id and the update's write,
\* the delete has responded 204, the update 200 with no 404 written, and
\* unless a later request wrote the id again it is in the Store, mapped to
\* the update's User, after both have completed.
C9_UpdateOverlappingDelete ==
    \A u, d \in Procs :
        Overlap(u, d) =>
            /\ frame[d].w.status = StatusNoContent
            /\ frame[u].w.status = StatusOK
            /\ Len(frame[u].w.body) = 1
            /\ LastWriter(u) =>
                 /\ frame[u].parsedID \in DOMAIN db
                 /\ db[frame[u].parsedID] = frame[u].user

C9_Witness ==
    \E u, d \in Procs :
        /\ Overlap(u, d)
        /\ LastWriter(u)
        /\ frame[d].w.status = StatusNoContent
        /\ frame[u].w.status = StatusOK
        /\ frame[u].parsedID \in DOMAIN db
        /\ \A p \in Procs : pc[p] = "done"

=============================================================================
